---- MODULE Spec2Model ----
(***************************************************************************)
(* Live record-status broadcast of Hydro's record handler                  *)
(* (src/hydro/handler/record.ts): the list and detail connection sessions, *)
(* the 'record_change' subscription table, the detail page and the rejudge *)
(* request.  Every await of the source is a point where the handler        *)
(* suspends; one action runs a handler from one suspension to the next.    *)
(***************************************************************************)
EXTENDS Integers, Sequences, FiniteSets, TLC

VARIABLES
    sess,     \* the connection handlers: their fields and what they have sent
    subs,     \* the bus's subscription table for 'record_change'
    tasks,    \* the suspended invocations of message and onRecordChange
    log,      \* the events published, each with the sessions it was delivered to
    nPub,     \* events published
    nMsg,     \* client messages received
    req,      \* the request being handled (detail page or rejudge)
    nReq,     \* requests started
    rstatus,  \* the judging state of each record
    queue,    \* the judging pipeline's queue
    cap,      \* the connections and events of this run
    failed,   \* the invocations of onRecordChange that ended in an error
    inbox     \* the client messages received: the session, and whether rids is an array

vars == <<sess, subs, tasks, log, nPub, nMsg, req, nReq, rstatus, queue, cap,
          failed, inbox>>

(* ------------------------------ bounds -------------------------------- *)

\* Events the judging pipeline publishes in one run.
MaxPublish == 1
\* Client messages sent to list sessions in one run.
MaxResync == 1
\* Page and rejudge requests in one run.
MaxRequests == 2

(* ------------------------------ values -------------------------------- *)

\* JavaScript values are tagged, so that a string never equals an ObjectID.
Undefined == [t |-> "undef", h |-> ""]
Null == [t |-> "null", h |-> ""]
ObjectID(x) == [t |-> "oid", h |-> x]
Str(x) == [t |-> "str", h |-> x]

\* ObjectID.prototype.toString(): the hex string of the id.
toString(v) == [t |-> "str", h |-> v.h]

\* JavaScript truthiness of the values used here.
Truthy(v) == v.t \notin {"undef", "null"}

\* The strict comparison a !== b: values of different types are never equal.
StrictNeq(a, b) == ~(a.t = b.t /\ a.h = b.h)

(* --------------------------- the documents ---------------------------- *)

Sessions == {"s1", "s2"}
Users == {"owner", "guest", "staff"}
\* The viewers that open connection sessions.
SessionUsers == {"guest", "staff"}
RIDS == {"R1", "R2", "R3"}
MissingRid == "RX"

\* The permissions each user holds (PERM of model/builtin).
Perms(u) ==
    IF u = "staff"
    THEN {"PERM_VIEW_PROBLEM_HIDDEN", "PERM_READ_RECORD_CODE", "PERM_REJUDGE",
          "PERM_VIEW_CONTEST_HIDDEN"}
    ELSE {}

hasPerm(u, p) == p \in Perms(u)

\* The record documents: R1 plain, R2 of the hidden problem P2, R3 of the
\* contest T2. The records of T2 are shown only to the staff; T1 is a
\* contest whose records are shown to every viewer.
Rdoc(r) ==
    [_id |-> ObjectID(r),
     uid |-> "owner",
     pid |-> IF r = "R2" THEN "P2" ELSE "P1",
     contest |-> IF r = "R3" THEN ObjectID("T2") ELSE Null,
     code |-> Str("code")]

\* record.get: the document, or null when there is none.
RecordExists(r) == r \in RIDS

\* problem.get: P2 is hidden.
PdocHidden(pid) == pid = "P2"

\* ContestHandlerMixin.canShowRecord on the contest document tdoc.
canShowRecord(u, tid) == tid = "T1" \/ hasPerm(u, "PERM_VIEW_CONTEST_HIDDEN")

(* ------------------------------ events -------------------------------- *)

\* The field deltas the pipeline publishes: none, {status: AC} with an empty
\* push, a set of the code field, a push alone.
Deltas ==
    {[set |-> "undef", push |-> "undef"],
     [set |-> "status", push |-> "empty"],
     [set |-> "code", push |-> "undef"],
     [set |-> "undef", push |-> "cases"]}

\* data.value of a 'record_change' event; n and src tell the events apart.
Event(n, src, rid, d) ==
    [n |-> n, src |-> src, rid |-> rid, set |-> d.set, push |-> d.push]

NoEvent == [n |-> 0, src |-> "none", rid |-> "", set |-> "undef", push |-> "undef"]

\* An object ({} included) is truthy; undefined is not.
DeltaTruthy(x) == x # "undef"

(* ------------------------------ the bus ------------------------------- *)

\* bus.subscribe: a fresh id; a session subscribes at most once, so the
\* session names the id.
SubId(s) == [t |-> "id", h |-> s]

subscribe(table, s) == table \cup {[id |-> SubId(s), h |-> s]}

\* bus.unsubscribe: removes the entry of that id, if any.
unsubscribe(table, id) == {x \in table : x.id # id}

Subscribed(s) == \E x \in subs : x.h = s

(* ----------------------------- sessions ------------------------------- *)

NewSession ==
    [kind |-> "none", user |-> "guest", pc |-> "new", closed |-> FALSE,
     tid |-> Undefined, rid |-> Undefined, id |-> Undefined,
     arg |-> Undefined, out |-> <<>>, err |-> ""]

NoRequest ==
    [kind |-> "none", user |-> "guest", rid |-> "", pc |-> "idle",
     result |-> "", code |-> Null, nReset |-> 0, nJudge |-> 0,
     queue0 |-> <<>>, rstatus0 |-> [r \in RIDS |-> "judged"]]

InitState ==
    /\ sess = [s \in Sessions |-> NewSession]
    /\ subs = {}
    /\ tasks = {}
    /\ log = <<>>
    /\ nPub = 0
    /\ nMsg = 0
    /\ req = NoRequest
    /\ nReq = 0
    /\ rstatus = [r \in RIDS |-> "judged"]
    /\ queue = <<>>
    /\ failed = {}
    /\ inbox = <<>>

\* One connection.
Init == InitState /\ cap = [conn |-> 1, pub |-> MaxPublish]

\* Two connections.
InitPair == InitState /\ cap = [conn |-> 2, pub |-> MaxPublish]

\* One connection and one event more, so that two events can race.
InitRace == InitState /\ cap = [conn |-> 1, pub |-> MaxPublish + 1]

\* Connections are numbered in the order they are opened.
MayOpen(s) ==
    /\ sess[s].kind = "none"
    /\ Cardinality({x \in Sessions : sess[x].kind # "none"}) < cap.conn
    /\ s = "s2" => sess["s1"].kind # "none"

Task(s, pc, ev, rids) == [s |-> s, pc |-> pc, ev |-> ev, rids |-> rids]

\* ConnectionHandler.close / the transport closing: the connection is
\* closed and cleanup runs.
cleanup(table, s) == unsubscribe(table, sess[s].id)

(* ------------------------- list session ------------------------------- *)

\* RecordMainConnectionHandler.prepare up to its first await.
MainPrepare(s, u, tid) ==
    /\ MayOpen(s)
    /\ IF Truthy(tid)
       THEN /\ sess' = [sess EXCEPT ![s].kind = "main", ![s].user = u,
                                    ![s].pc = "contest", ![s].arg = tid]
            /\ subs' = subs
       ELSE /\ sess' = [sess EXCEPT ![s].kind = "main", ![s].user = u,
                                    ![s].pc = "ready", ![s].id = SubId(s)]
            /\ subs' = subscribe(subs, s)
    /\ UNCHANGED <<tasks, nPub, nMsg, req, nReq, rstatus, queue, log, cap,
                   failed, inbox>>

MainPrepareContestNoReturn(s) ==
    /\ sess[s].kind = "main"
    /\ sess[s].pc = "contest"
    /\ IF canShowRecord(sess[s].user, sess[s].arg.h)
       THEN /\ sess' = [sess EXCEPT ![s].tid = sess[s].arg, ![s].pc = "ready",
                                    ![s].id = SubId(s)]
            /\ subs' = subscribe(subs, s)
       ELSE /\ sess' = [sess EXCEPT ![s].closed = TRUE, ![s].pc = "rejected",
                                    ![s].id = SubId(s)]
            /\ subs' = subscribe(cleanup(subs, s), s)
    /\ UNCHANGED <<tasks, nPub, nMsg, req, nReq, rstatus, queue, log, cap,
                   failed, inbox>>

\* prepare resumed with the contest document.
MainPrepareContest(s) ==
    /\ sess[s].kind = "main"
    /\ sess[s].pc = "contest"
    /\ IF canShowRecord(sess[s].user, sess[s].arg.h)
       THEN /\ sess' = [sess EXCEPT ![s].tid = sess[s].arg, ![s].pc = "ready",
                                    ![s].id = SubId(s)]
            /\ subs' = subscribe(subs, s)
       ELSE /\ sess' = [sess EXCEPT ![s].closed = TRUE, ![s].pc = "rejected"]
            /\ subs' = cleanup(subs, s)
    /\ UNCHANGED <<tasks, nPub, nMsg, req, nReq, rstatus, queue, log, cap,
                   failed, inbox>>

MainContestDropOnlyWhenFiltered(rdoc, tid) ==
    /\ tid # Undefined
    /\ Truthy(rdoc.contest)
    /\ StrictNeq(toString(rdoc.contest), tid)

MainContestDropInverted(rdoc, tid) ==
    Truthy(rdoc.contest) /\ ~StrictNeq(toString(rdoc.contest), tid)

\* The contest test of onRecordChange: TRUE when the event is dropped.
MainContestDrop(rdoc, tid) ==
    Truthy(rdoc.contest) /\ StrictNeq(toString(rdoc.contest), tid)

\* RecordMainConnectionHandler.onRecordChange up to its first await: the
\* messages it sends and the invocations it leaves suspended.
MainEnter(s, ev) ==
    IF MainContestDrop(Rdoc(ev.rid), sess[s].tid)
    THEN [msgs |-> <<>>, tasks |-> {}]
    ELSE [msgs |-> <<>>, tasks |-> {Task(s, "fetch", ev, {})}]

\* The hidden-problem test after the user and problem documents arrive.
MainHiddenDrop(u, pid) ==
    PdocHidden(pid) /\ ~hasPerm(u, "PERM_VIEW_PROBLEM_HIDDEN")

MainFetchedUnsubscribes(t) ==
    /\ t \in tasks
    /\ t.pc = "fetch"
    /\ IF MainHiddenDrop(sess[t.s].user, Rdoc(t.ev.rid).pid)
       THEN tasks' = tasks \ {t} /\ subs' = cleanup(subs, t.s)
       ELSE tasks' = (tasks \ {t}) \cup {Task(t.s, "render", t.ev, {})} /\ subs' = subs
    /\ UNCHANGED <<sess, nPub, nMsg, req, nReq, rstatus, queue, log, cap,
                   failed, inbox>>

\* onRecordChange resumed with udoc and pdoc.
MainFetched(t) ==
    /\ t \in tasks
    /\ t.pc = "fetch"
    /\ IF MainHiddenDrop(sess[t.s].user, Rdoc(t.ev.rid).pid)
       THEN tasks' = tasks \ {t}
       ELSE tasks' = (tasks \ {t}) \cup {Task(t.s, "render", t.ev, {})}
    /\ UNCHANGED <<sess, subs, nPub, nMsg, req, nReq, rstatus, queue, log, cap,
                   failed, inbox>>

RowMsg(ev) ==
    [type |-> "row", rid |-> ev.rid, set |-> "undef", push |-> "undef", ev |-> ev]

MainRenderedInOrder(t) ==
    /\ t \in tasks
    /\ t.pc = "render"
    /\ \A x \in tasks : x.s = t.s => x.ev.n >= t.ev.n
    /\ tasks' = tasks \ {t}
    /\ sess' = [sess EXCEPT ![t.s].out = Append(@, RowMsg(t.ev))]
    /\ UNCHANGED <<subs, nPub, nMsg, req, nReq, rstatus, queue, log, cap,
                   failed, inbox>>

\* onRecordChange resumed with the rendered row: this.send({ html }).
MainRendered(t) ==
    /\ t \in tasks
    /\ t.pc = "render"
    /\ tasks' = tasks \ {t}
    /\ sess' = [sess EXCEPT ![t.s].out = Append(@, RowMsg(t.ev))]
    /\ UNCHANGED <<subs, nPub, nMsg, req, nReq, rstatus, queue, log, cap,
                   failed, inbox>>

\* The client messages: rids absent, rids not an array, or an array of ids.
ResyncInputs ==
    {[isArray |-> FALSE, rids |-> {}], [isArray |-> FALSE, rids |-> {"R1"}]}
    \cup {[isArray |-> TRUE, rids |-> R] :
            R \in {{"R1"}, {"R2", "R3"}, {MissingRid}}}

MainMessageNoArrayTest(s, msg) ==
    /\ sess[s].kind = "main"
    /\ sess[s].pc = "ready"
    /\ ~sess[s].closed
    /\ nMsg < MaxResync
    /\ nMsg' = nMsg + 1
    /\ inbox' = Append(inbox, [s |-> s, isArray |-> msg.isArray])
    /\ tasks' = tasks \cup {Task(s, "query", NoEvent, msg.rids)}
    /\ UNCHANGED <<sess, subs, nPub, req, nReq, rstatus, queue, log, cap, failed>>

\* RecordMainConnectionHandler.message up to its await of the query.
MainMessage(s, msg) ==
    /\ sess[s].kind = "main"
    /\ sess[s].pc = "ready"
    /\ ~sess[s].closed
    /\ nMsg < MaxResync
    /\ nMsg' = nMsg + 1
    /\ inbox' = Append(inbox, [s |-> s, isArray |-> msg.isArray])
    /\ IF msg.isArray
       THEN tasks' = tasks \cup {Task(s, "query", NoEvent, msg.rids)}
       ELSE tasks' = tasks
    /\ UNCHANGED <<sess, subs, nPub, req, nReq, rstatus, queue, log, cap, failed>>

\* message resumed with the documents found: onRecordChange is called for
\* each of them and none of the calls is awaited.
MainMessageQueried(t) ==
    /\ t \in tasks
    /\ t.pc = "query"
    /\ LET found == {r \in t.rids : RecordExists(r)}
           ev(r) == Event(nMsg, "resync", r, [set |-> "undef", push |-> "undef"])
       IN tasks' = (tasks \ {t}) \cup UNION {MainEnter(t.s, ev(r)).tasks : r \in found}
    /\ UNCHANGED <<sess, subs, nPub, nMsg, req, nReq, rstatus, queue, log, cap,
                   failed, inbox>>

(* ------------------------ detail session ------------------------------ *)

\* RecordDetailConnectionHandler.prepare up to its await of record.get.
DetailPrepare(s, u, rid) ==
    /\ MayOpen(s)
    /\ sess' = [sess EXCEPT ![s].kind = "detail", ![s].user = u,
                            ![s].pc = "get", ![s].arg = ObjectID(rid)]
    /\ UNCHANGED <<subs, tasks, nPub, nMsg, req, nReq, rstatus, queue, log, cap,
                   failed, inbox>>

PatchMsg(ev) ==
    [type |-> "patch", rid |-> ev.rid, set |-> ev.set, push |-> ev.push, ev |-> ev]

SnapshotMsg(ev) ==
    [type |-> "snapshot", rid |-> ev.rid, set |-> "undef", push |-> "undef",
     ev |-> ev]

\* The test that picks the incremental patch: if ($set).
DetailIsPatch(ev) == DeltaTruthy(ev.set)

DetailEnterNoIdTest(s, thisRid, ev) ==
    IF DetailIsPatch(ev)
    THEN [msgs |-> <<PatchMsg(ev)>>, tasks |-> {}]
    ELSE [msgs |-> <<>>, tasks |-> {Task(s, "render1", ev, {})}]

\* RecordDetailConnectionHandler.onRecordChange up to its first await, in a
\* session whose this.rid is thisRid.
DetailEnter(s, thisRid, ev) ==
    IF StrictNeq(toString(Rdoc(ev.rid)._id), thisRid)
    THEN [msgs |-> <<>>, tasks |-> {}]
    ELSE IF DetailIsPatch(ev)
         THEN [msgs |-> <<PatchMsg(ev)>>, tasks |-> {}]
         ELSE [msgs |-> <<>>, tasks |-> {Task(s, "render1", ev, {})}]

DetailSubscribeNoSnapshot(s) ==
    LET rid == toString(sess[s].arg)
    IN /\ sess' = [sess EXCEPT ![s].rid = rid, ![s].id = SubId(s),
                               ![s].pc = "ready"]
       /\ subs' = subscribe(subs, s)
       /\ tasks' = tasks

\* The end of prepare: this.rid, the subscription and the synthesized event.
DetailSubscribe(s) ==
    LET rid == toString(sess[s].arg)
        ev == Event(0, "prepare", sess[s].arg.h, [set |-> "undef", push |-> "undef"])
        r == DetailEnter(s, rid, ev)
    IN /\ sess' = [sess EXCEPT ![s].rid = rid, ![s].id = SubId(s),
                               ![s].pc = "ready", ![s].out = @ \o r.msgs]
       /\ subs' = subscribe(subs, s)
       /\ tasks' = tasks \cup r.tasks

\* prepare resumed with the record: rdoc.contest of a null rdoc throws.
DetailPrepareGot(s) ==
    /\ sess[s].kind = "detail"
    /\ sess[s].pc = "get"
    /\ IF ~RecordExists(sess[s].arg.h)
       THEN /\ sess' = [sess EXCEPT ![s].pc = "error", ![s].closed = TRUE,
                                    ![s].err = "TypeError"]
            /\ subs' = cleanup(subs, s)
            /\ tasks' = tasks
       ELSE IF Truthy(Rdoc(sess[s].arg.h).contest)
            THEN /\ sess' = [sess EXCEPT ![s].pc = "contest"]
                 /\ UNCHANGED <<subs, tasks>>
            ELSE DetailSubscribe(s)
    /\ UNCHANGED <<nPub, nMsg, req, nReq, rstatus, queue, log, cap,
                   failed, inbox>>

\* prepare resumed with the contest document.
DetailPrepareContest(s) ==
    /\ sess[s].kind = "detail"
    /\ sess[s].pc = "contest"
    /\ IF ~canShowRecord(sess[s].user, Rdoc(sess[s].arg.h).contest.h)
       THEN /\ sess' = [sess EXCEPT ![s].closed = TRUE, ![s].pc = "rejected"]
            /\ subs' = cleanup(subs, s)
            /\ tasks' = tasks
       ELSE DetailSubscribe(s)
    /\ UNCHANGED <<nPub, nMsg, req, nReq, rstatus, queue, log, cap,
                   failed, inbox>>

\* onRecordChange resumed with the status view: the summary view is next.
DetailRendered1(t) ==
    /\ t \in tasks
    /\ t.pc = "render1"
    /\ tasks' = (tasks \ {t}) \cup {Task(t.s, "render2", t.ev, {})}
    /\ UNCHANGED <<sess, subs, nPub, nMsg, req, nReq, rstatus, queue, log, cap,
                   failed, inbox>>

\* onRecordChange resumed with the summary view: this.send of the snapshot.
DetailRendered2(t) ==
    /\ t \in tasks
    /\ t.pc = "render2"
    /\ tasks' = tasks \ {t}
    /\ sess' = [sess EXCEPT ![t.s].out = Append(@, SnapshotMsg(t.ev))]
    /\ UNCHANGED <<subs, nPub, nMsg, req, nReq, rstatus, queue, log, cap,
                   failed, inbox>>

TaskFailPropagates(t) ==
    /\ t \in tasks
    /\ t.pc \in {"fetch", "render", "render1", "render2"}
    /\ tasks' = {x \in tasks : x.ev # t.ev}
    /\ failed' = failed \cup {[s |-> t.s, ev |-> t.ev]}
    /\ UNCHANGED <<sess, subs, nPub, nMsg, req, nReq, rstatus, queue, log, cap, inbox>>

\* An awaited fetch or render of onRecordChange rejects: the invocation ends
\* there, its promise rejected, and nothing awaits that promise.
TaskFail(t) ==
    /\ t \in tasks
    /\ t.pc \in {"fetch", "render", "render1", "render2"}
    /\ tasks' = tasks \ {t}
    /\ failed' = failed \cup {[s |-> t.s, ev |-> t.ev]}
    /\ UNCHANGED <<sess, subs, nPub, nMsg, req, nReq, rstatus, queue, log, cap, inbox>>

(* ----------------------- transport and bus ---------------------------- *)

\* The transport closes (the client leaves, or an error): cleanup runs.
Close(s) ==
    /\ sess[s].kind # "none"
    /\ ~sess[s].closed
    /\ sess' = [sess EXCEPT ![s].closed = TRUE]
    /\ subs' = cleanup(subs, s)
    /\ UNCHANGED <<tasks, nPub, nMsg, req, nReq, rstatus, queue, log, cap,
                   failed, inbox>>

Enter(s, ev) ==
    IF sess[s].kind = "main" THEN MainEnter(s, ev)
    ELSE DetailEnter(s, sess[s].rid, ev)

\* bus.publish('record_change', ...): every registered callback is called
\* and runs to its first await.
Publish(rid, d) ==
    /\ nPub < cap.pub
    /\ nPub' = nPub + 1
    /\ LET ev == Event(nPub + 1, "bus", rid, d)
           H == {x.h : x \in subs}
       IN /\ sess' = [s \in Sessions |->
                        IF s \in H
                        THEN [sess[s] EXCEPT !.out = @ \o Enter(s, ev).msgs]
                        ELSE sess[s]]
          /\ tasks' = tasks \cup UNION {Enter(s, ev).tasks : s \in H}
          /\ log' = Append(log, [ev |-> ev, to |-> H])
    /\ UNCHANGED <<subs, nMsg, req, nReq, rstatus, queue, cap, failed, inbox>>

(* ---------------------------- requests -------------------------------- *)

\* The code field of the detail page's rdoc.
DetailCode(u, rdoc) ==
    IF rdoc.uid # u /\ ~hasPerm(u, "PERM_READ_RECORD_CODE") THEN Null ELSE rdoc.code

\* RecordDetailHandler.get.
DetailGet(u, rid) ==
    /\ req.pc \in {"idle", "done"}
    /\ nReq < MaxRequests
    /\ nReq' = nReq + 1
    /\ req' = [NoRequest EXCEPT
                 !.kind = "detail", !.user = u, !.rid = rid, !.pc = "done",
                 !.queue0 = queue, !.rstatus0 = rstatus,
                 !.result =
                     IF ~RecordExists(rid) THEN "RecordNotFoundError"
                     ELSE IF Truthy(Rdoc(rid).contest)
                             /\ ~canShowRecord(u, Rdoc(rid).contest.h)
                          THEN "PermissionError"
                          ELSE "ok",
                 !.code =
                     IF RecordExists(rid)
                        /\ (Truthy(Rdoc(rid).contest) => canShowRecord(u, Rdoc(rid).contest.h))
                     THEN DetailCode(u, Rdoc(rid))
                     ELSE Null]
    /\ UNCHANGED <<sess, subs, tasks, nPub, nMsg, rstatus, queue, log, cap,
                   failed, inbox>>

\* RecordRejudgeHandler.post up to its await of record.get.
RejudgePost(u, rid) ==
    /\ req.pc \in {"idle", "done"}
    /\ nReq < MaxRequests
    /\ nReq' = nReq + 1
    /\ LET r == [NoRequest EXCEPT !.kind = "rejudge", !.user = u, !.rid = rid,
                                   !.queue0 = queue, !.rstatus0 = rstatus]
       IN IF hasPerm(u, "PERM_REJUDGE")
          THEN req' = [r EXCEPT !.pc = "get"]
          ELSE req' = [r EXCEPT !.pc = "done", !.result = "PermissionError"]
    /\ UNCHANGED <<sess, subs, tasks, nPub, nMsg, rstatus, queue, log, cap,
                   failed, inbox>>

RejudgeFoundAlways(rid) == TRUE

\* The test of post: if (rdoc).
RejudgeFound(rid) == RecordExists(rid)

RejudgeGotSkipsReset ==
    /\ req.kind = "rejudge"
    /\ req.pc = "get"
    /\ IF RejudgeFound(req.rid)
       THEN req' = [req EXCEPT !.pc = "judge"]
       ELSE req' = [req EXCEPT !.pc = "done", !.result = "ok"]
    /\ UNCHANGED <<sess, subs, tasks, nPub, nMsg, nReq, rstatus, queue, log, cap,
                   failed, inbox>>

\* post resumed with the record: record.reset is awaited, or this.back().
RejudgeGot ==
    /\ req.kind = "rejudge"
    /\ req.pc = "get"
    /\ IF RejudgeFound(req.rid)
       THEN req' = [req EXCEPT !.pc = "reset"]
       ELSE req' = [req EXCEPT !.pc = "done", !.result = "ok"]
    /\ UNCHANGED <<sess, subs, tasks, nPub, nMsg, nReq, rstatus, queue, log, cap,
                   failed, inbox>>

\* record.reset has completed; record.judge is awaited.
RejudgeReset ==
    /\ req.kind = "rejudge"
    /\ req.pc = "reset"
    /\ req' = [req EXCEPT !.pc = "judge", !.nReset = @ + 1]
    /\ rstatus' = [r \in RIDS |-> IF r = req.rid THEN "waiting" ELSE rstatus[r]]
    /\ UNCHANGED <<sess, subs, tasks, nPub, nMsg, nReq, queue, log, cap,
                   failed, inbox>>

\* record.judge has completed: the record is enqueued; this.back().
RejudgeJudged ==
    /\ req.kind = "rejudge"
    /\ req.pc = "judge"
    /\ req' = [req EXCEPT !.pc = "done", !.result = "ok", !.nJudge = @ + 1]
    /\ queue' = Append(queue, req.rid)
    /\ UNCHANGED <<sess, subs, tasks, nPub, nMsg, nReq, rstatus, log, cap,
                   failed, inbox>>

(* ------------------------- specification ------------------------------ *)

TidInputs == {Undefined, ObjectID("T1"), ObjectID("T2")}
RidInputs == RIDS \cup {MissingRid}

\* The sessions, the transport and the bus.
Next ==
    \/ \E s \in Sessions, u \in SessionUsers, tid \in TidInputs : MainPrepare(s, u, tid)
    \/ \E s \in Sessions : MainPrepareContest(s)
    \/ \E s \in Sessions, msg \in ResyncInputs : MainMessage(s, msg)
    \/ \E t \in tasks : MainMessageQueried(t)
    \/ \E t \in tasks : MainFetched(t)
    \/ \E t \in tasks : MainRendered(t)
    \/ \E s \in Sessions, u \in SessionUsers, rid \in RidInputs : DetailPrepare(s, u, rid)
    \/ \E s \in Sessions : DetailPrepareGot(s)
    \/ \E s \in Sessions : DetailPrepareContest(s)
    \/ \E t \in tasks : DetailRendered1(t)
    \/ \E t \in tasks : DetailRendered2(t)
    \/ \E s \in Sessions : Close(s)
    \/ \E rid \in RIDS, d \in Deltas : Publish(rid, d)

Spec == Init /\ [][Next]_vars

SpecPair == InitPair /\ [][Next]_vars

\* One detail session, the transport and the bus.
NextDetail ==
    \/ \E s \in Sessions, u \in SessionUsers, rid \in RidInputs : DetailPrepare(s, u, rid)
    \/ \E s \in Sessions : DetailPrepareGot(s)
    \/ \E s \in Sessions : DetailPrepareContest(s)
    \/ \E t \in tasks : DetailRendered1(t)
    \/ \E t \in tasks : DetailRendered2(t)
    \/ \E s \in Sessions : Close(s)
    \/ \E rid \in RIDS, d \in Deltas : Publish(rid, d)

\* The awaited renders of a detail session eventually resolve.
SpecLive ==
    /\ Init
    /\ [][NextDetail]_vars
    /\ WF_vars(\E t \in tasks : DetailRendered1(t))
    /\ WF_vars(\E t \in tasks : DetailRendered2(t))

\* One list session and events that follow one another.
NextRace ==
    \/ \E s \in Sessions, u \in SessionUsers, tid \in TidInputs : MainPrepare(s, u, tid)
    \/ \E s \in Sessions : MainPrepareContest(s)
    \/ \E t \in tasks : MainFetched(t)
    \/ \E t \in tasks : MainRendered(t)
    \/ \E rid \in RIDS, d \in Deltas : Publish(rid, d)

SpecRace == InitRace /\ [][NextRace]_vars

\* Two sessions whose fetches and renders may fail.
NextFault ==
    \/ \E s \in Sessions, u \in SessionUsers, tid \in TidInputs : MainPrepare(s, u, tid)
    \/ \E s \in Sessions : MainPrepareContest(s)
    \/ \E t \in tasks : MainFetched(t)
    \/ \E t \in tasks : MainRendered(t)
    \/ \E s \in Sessions, u \in SessionUsers, rid \in RidInputs : DetailPrepare(s, u, rid)
    \/ \E s \in Sessions : DetailPrepareGot(s)
    \/ \E s \in Sessions : DetailPrepareContest(s)
    \/ \E t \in tasks : DetailRendered1(t)
    \/ \E t \in tasks : DetailRendered2(t)
    \/ \E rid \in RIDS, d \in Deltas : Publish(rid, d)
    \/ \E t \in tasks : TaskFail(t)

SpecFault == InitPair /\ [][NextFault]_vars

\* The request handlers: the detail page and the rejudge.
NextRequest ==
    \/ \E u \in Users, rid \in RidInputs : DetailGet(u, rid)
    \/ \E u \in Users, rid \in RidInputs : RejudgePost(u, rid)
    \/ RejudgeGot
    \/ RejudgeReset
    \/ RejudgeJudged

SpecRequest == Init /\ [][NextRequest]_vars

(* ------------------------------ claims -------------------------------- *)

Out(s) == sess[s].out
OutIdx(s) == 1..Len(sess[s].out)

\* prepare has returned or thrown and no invocation of the session is suspended.
Quiet(s) ==
    /\ sess[s].pc \in {"ready", "rejected", "error"}
    /\ \A t \in tasks : t.s # s

\* C1: once a session is closed and all its pending steps have run, the
\* subscription table holds no entry for it.
C1_NoSubscriptionAfterClose ==
    \A s \in Sessions : (sess[s].closed /\ Quiet(s)) => ~Subscribed(s)

\* C2: the first message a detail session writes is the snapshot synthesized
\* from the record fetched in prepare.
C2_SnapshotFirst ==
    \A s \in Sessions :
        (sess[s].kind = "detail" /\ Len(Out(s)) > 0)
            => (Out(s)[1].type = "snapshot" /\ Out(s)[1].ev.src = "prepare")

\* C3: a session whose viewer lacks the hidden-problem permission never writes
\* a payload for a record whose problem is hidden.
C3_NoHiddenPayload ==
    \A s \in Sessions :
        ~hasPerm(sess[s].user, "PERM_VIEW_PROBLEM_HIDDEN")
            => \A i \in OutIdx(s) : ~PdocHidden(Rdoc(Out(s)[i].rid).pid)

\* The code field a message carries: a patch forwards its $set as it is.
MsgCode(m) == IF m.type = "patch" /\ m.set = "code" THEN Str("code") ELSE Null

MayReadCode(u, r) == Rdoc(r).uid = u \/ hasPerm(u, "PERM_READ_RECORD_CODE")

\* C4: no payload for a viewer who neither owns the record nor holds the
\* code-read permission carries a non-null code field: the detail page's
\* response, and every message of a session.
C4_NoCodeLeak ==
    /\ (req.kind = "detail" /\ ~MayReadCode(req.user, req.rid)) => req.code = Null
    /\ \A s \in Sessions : \A i \in OutIdx(s) :
           ~MayReadCode(sess[s].user, Out(s)[i].rid) => MsgCode(Out(s)[i]) = Null

\* C5: a list session with contest filter C never writes a row for a record
\* of a contest other than C.
C5_FilteredRowsOfFilterContest ==
    \A s \in Sessions :
        (sess[s].kind = "main" /\ Truthy(sess[s].tid))
            => \A i \in OutIdx(s) :
                   Truthy(Rdoc(Out(s)[i].rid).contest)
                       => Rdoc(Out(s)[i].rid).contest.h = sess[s].tid.h

\* A list session filtered to a contest has been delivered an event of a
\* record of another contest and has finished handling it.
C5_Witness ==
    \E s \in Sessions : \E k \in 1..Len(log) :
        /\ sess[s].kind = "main"
        /\ Truthy(sess[s].tid)
        /\ s \in log[k].to
        /\ Truthy(Rdoc(log[k].ev.rid).contest)
        /\ Rdoc(log[k].ev.rid).contest.h # sess[s].tid.h
        /\ Quiet(s)

\* C6: when an event of a record with no contest and a visible problem is
\* delivered to an unfiltered list session and to one filtered to T1, then
\* once both have handled it the unfiltered one has written a row for it and
\* the filtered one has written nothing for it.
C6_OnlyUnfilteredReceives ==
    \A k \in 1..Len(log) : \A u \in log[k].to : \A f \in log[k].to :
        (/\ Rdoc(log[k].ev.rid).contest = Null
         /\ ~PdocHidden(Rdoc(log[k].ev.rid).pid)
         /\ sess[u].kind = "main" /\ sess[u].tid = Undefined
         /\ sess[f].kind = "main" /\ sess[f].tid = ObjectID("T1")
         /\ Quiet(u) /\ Quiet(f))
            => /\ \E i \in OutIdx(u) : Out(u)[i] = RowMsg(log[k].ev)
               /\ \A i \in OutIdx(f) : Out(f)[i].ev # log[k].ev

\* C7: after its connection is closed a session writes no further message;
\* stated for the sessions whose subscription is gone, where the only work
\* left is an invocation that was suspended when the connection closed.
C7_NoWriteAfterClose ==
    [][\A s \in Sessions :
          (sess[s].closed /\ ~Subscribed(s) /\ sess[s].pc = "ready")
              => sess'[s].out = sess[s].out]_vars

\* C8: a session whose contest visibility check fails on open is closed, has
\* never subscribed and has written nothing.
C8_RejectedNeverSubscribes ==
    \A s \in Sessions :
        sess[s].pc = "rejected"
            => /\ sess[s].closed
               /\ sess[s].id = Undefined
               /\ ~Subscribed(s)
               /\ Out(s) = <<>>
               /\ \A t \in tasks : t.s # s

\* A detail session was rejected by the contest of its record while another
\* subscription could exist.
C8_Witness ==
    \E s \in Sessions :
        sess[s].pc = "rejected" /\ sess[s].kind = "detail" /\ nPub > 0

HasDelta(ev) == ev.set # "undef" \/ ev.push # "undef"

\* C9: for every bus event of a detail session's record that carries a field
\* delta (a set, a push, or both), the session writes exactly one message,
\* the patch holding that delta, and performs no render.
C9_DeltaYieldsOnePatch ==
    \A k \in 1..Len(log) : \A s \in log[k].to :
        (/\ sess[s].kind = "detail"
         /\ toString(Rdoc(log[k].ev.rid)._id) = sess[s].rid
         /\ HasDelta(log[k].ev))
            => /\ Cardinality({i \in OutIdx(s) : Out(s)[i].ev = log[k].ev}) = 1
               /\ \A i \in OutIdx(s) :
                      Out(s)[i].ev = log[k].ev => Out(s)[i] = PatchMsg(log[k].ev)
               /\ \A t \in tasks : ~(t.s = s /\ t.ev = log[k].ev)

\* C10: a permitted rejudge of a record id that does not exist succeeds,
\* resets nothing and enqueues nothing: the record store and the judging
\* queue are as they were when the request started.
C10_RejudgeMissingIsNoOp ==
    (/\ req.kind = "rejudge"
     /\ hasPerm(req.user, "PERM_REJUDGE")
     /\ ~RecordExists(req.rid))
        => /\ req.pc \in {"get", "done"}
           /\ req.pc = "done" => req.result = "ok"
           /\ req.nReset = 0
           /\ req.nJudge = 0
           /\ queue = req.queue0
           /\ rstatus = req.rstatus0

\* A rejudge of a missing record has completed after an earlier rejudge
\* filled the queue.
C10_Witness ==
    /\ req.kind = "rejudge"
    /\ req.pc = "done"
    /\ req.result = "ok"
    /\ req.rid = MissingRid
    /\ Len(queue) = 1

\* C11: opening a detail view (page or connection session) for a record id
\* that is not in the store ends with the not-found condition, before any
\* subscription; a failed contest visibility check ends otherwise.
C11_MissingRecordIsNotFound ==
    /\ (req.kind = "detail" /\ ~RecordExists(req.rid))
           => req.result = "RecordNotFoundError"
    /\ (req.kind = "detail" /\ RecordExists(req.rid)
          /\ Truthy(Rdoc(req.rid).contest)
          /\ ~canShowRecord(req.user, Rdoc(req.rid).contest.h))
           => req.result = "PermissionError"
    /\ \A s \in Sessions :
           /\ (sess[s].kind = "detail" /\ sess[s].pc # "get"
                 /\ ~RecordExists(sess[s].arg.h))
                  => (sess[s].err = "RecordNotFoundError" /\ sess[s].id = Undefined)
           /\ sess[s].pc = "rejected" => sess[s].err # "RecordNotFoundError"

\* The filter of session s admits event ev: the contest and hidden-problem
\* tests of a list session, the id test of a detail session.
Admits(s, ev) ==
    IF sess[s].kind = "main"
    THEN /\ ~MainContestDrop(Rdoc(ev.rid), sess[s].tid)
         /\ ~MainHiddenDrop(sess[s].user, Rdoc(ev.rid).pid)
    ELSE ~StrictNeq(toString(Rdoc(ev.rid)._id), sess[s].rid)

HasFailed(s, ev) == [s |-> s, ev |-> ev] \in failed

\* C12: when one session's handling of a published event fails, every other
\* session the event was delivered to whose filter admits it still writes
\* its payload for that event, and the publisher has completed.
C12_FailureIsIsolated ==
    \A k \in 1..Len(log) : \A f \in log[k].to :
        HasFailed(f, log[k].ev) =>
            /\ nPub >= log[k].ev.n
            /\ \A s \in log[k].to \ {f} :
                   (Quiet(s) /\ ~HasFailed(s, log[k].ev) /\ Admits(s, log[k].ev))
                       => \E i \in OutIdx(s) : Out(s)[i].ev = log[k].ev

C12_Witness ==
    \E k \in 1..Len(log) : \E f \in log[k].to : \E s \in log[k].to \ {f} :
        /\ HasFailed(f, log[k].ev)
        /\ ~HasFailed(s, log[k].ev)
        /\ \E i \in OutIdx(s) : Out(s)[i].ev = log[k].ev

\* C13: a client message to a list session whose rids field is absent or is
\* not an array is ignored: the step that receives it starts no query,
\* writes nothing, and leaves the session open, subscribed and filtered as
\* it was.
C13_MalformedResyncIgnored ==
    [][(Len(inbox') = Len(inbox) + 1 /\ ~inbox'[Len(inbox')].isArray)
          => (sess' = sess /\ subs' = subs /\ tasks' = tasks)]_vars

C13_Witness ==
    \E i \in 1..Len(inbox) :
        /\ ~inbox[i].isArray
        /\ sess[inbox[i].s].kind = "main"
        /\ Subscribed(inbox[i].s)
        /\ ~sess[inbox[i].s].closed
        /\ Quiet(inbox[i].s)

\* C14: every detail session that has passed authorization and stays open
\* eventually writes the full snapshot of its target record that prepare
\* synthesizes, whether or not any event is published.
C14_SnapshotEventually ==
    \A s \in Sessions :
        (sess[s].kind = "detail" /\ sess[s].pc = "ready")
            ~> (\/ sess[s].closed
                \/ \E i \in OutIdx(s) :
                       /\ Out(s)[i].type = "snapshot"
                       /\ Out(s)[i].ev.src = "prepare"
                       /\ Out(s)[i].rid = sess[s].arg.h)

C14_Witness ==
    \E s \in Sessions :
        /\ sess[s].kind = "detail"
        /\ ~sess[s].closed
        /\ nPub = 0
        /\ \E i \in OutIdx(s) :
               Out(s)[i].type = "snapshot" /\ Out(s)[i].rid = sess[s].arg.h

\* A step of message or onRecordChange: an event is published, a client
\* message arrives, or a suspended invocation resumes.
HandlerStep ==
    \/ nPub' # nPub
    \/ nMsg' # nMsg
    \/ (tasks' # tasks /\ \A s \in Sessions : sess'[s].pc = sess[s].pc)

\* C15: handling a bus event or a resync request leaves the record store,
\* the judging queue, the subscription table and every session's viewer,
\* filter, target and subscription id unchanged.
C15_HandlersOnlyRead ==
    [][HandlerStep =>
          /\ subs' = subs
          /\ rstatus' = rstatus
          /\ queue' = queue
          /\ \A s \in Sessions :
                 /\ sess'[s].kind = sess[s].kind
                 /\ sess'[s].user = sess[s].user
                 /\ sess'[s].tid = sess[s].tid
                 /\ sess'[s].rid = sess[s].rid
                 /\ sess'[s].id = sess[s].id]_vars

C15_Witness ==
    \E s \in Sessions :
        /\ Subscribed(s)
        /\ Quiet(s)
        /\ \E i \in OutIdx(s) : Out(s)[i].ev.src = "bus"
        /\ \E i \in OutIdx(s) : Out(s)[i].ev.src = "resync"

\* The rows session s has written for event ev.
Rows(s, ev) == Cardinality({i \in OutIdx(s) : Out(s)[i].type = "row" /\ Out(s)[i].ev = ev})

\* A list session opened with no contest filter, all its invocations done.
UnfilteredDone(s) ==
    /\ sess[s].kind = "main"
    /\ sess[s].arg = Undefined
    /\ sess[s].tid = Undefined
    /\ Quiet(s)

\* C16 as stated: a list session opened with no contest filter ends with
\* exactly one row for every event delivered to it, contest record or not,
\* unless the problem is hidden from the viewer.
C16_UnfilteredWritesEveryEvent ==
    \A k \in 1..Len(log) : \A s \in log[k].to :
        (UnfilteredDone(s)
           /\ ~MainHiddenDrop(sess[s].user, Rdoc(log[k].ev.rid).pid))
            => Rows(s, log[k].ev) = 1

\* C16 amended: a list session opened with no contest filter ends with
\* exactly one row for every delivered event whose record has no contest
\* and whose problem the viewer may see, and with no row for an event whose
\* record belongs to a contest or whose problem is hidden from the viewer.
C16_UnfilteredWritesNonContest ==
    \A k \in 1..Len(log) : \A s \in log[k].to :
        UnfilteredDone(s) =>
            Rows(s, log[k].ev) =
                IF \/ Truthy(Rdoc(log[k].ev.rid).contest)
                   \/ MainHiddenDrop(sess[s].user, Rdoc(log[k].ev.rid).pid)
                THEN 0 ELSE 1

C16_Witness ==
    \E k \in 1..Len(log) : \E s \in log[k].to :
        /\ UnfilteredDone(s)
        /\ ~sess[s].closed
        /\ Truthy(Rdoc(log[k].ev.rid).contest)
        /\ Rows(s, log[k].ev) = 0

\* C17: a list session opened with an authorized contest filter C ends with
\* exactly one row for every event delivered to it whose record belongs to
\* contest C and whose problem the viewer may see.
C17_FilteredWritesMatching ==
    \A k \in 1..Len(log) : \A s \in log[k].to :
        (/\ sess[s].kind = "main"
         /\ Quiet(s)
         /\ Truthy(sess[s].tid)
         /\ Truthy(Rdoc(log[k].ev.rid).contest)
         /\ sess[s].tid.h = Rdoc(log[k].ev.rid).contest.h
         /\ ~MainHiddenDrop(sess[s].user, Rdoc(log[k].ev.rid).pid))
            => Rows(s, log[k].ev) = 1

\* C18: every message a detail session writes, snapshot or patch, is derived
\* from an event or fetch of the record the session tracks.
C18_DetailWritesOnlyTarget ==
    \A s \in Sessions :
        sess[s].kind = "detail" =>
            \A i \in OutIdx(s) : Out(s)[i].rid = sess[s].arg.h

C18_Witness ==
    \E s \in Sessions : \E k \in 1..Len(log) :
        /\ sess[s].kind = "detail"
        /\ s \in log[k].to
        /\ log[k].ev.rid # sess[s].arg.h
        /\ Truthy(Rdoc(log[k].ev.rid).contest)
        /\ Quiet(s)
        /\ Len(Out(s)) > 0

\* C19: a rejudge of an existing record by a caller holding the rejudge
\* permission resets the record and then enqueues it, the enqueue starting
\* only once the reset has completed; a caller without the permission
\* causes neither; the handler publishes no event and writes to no session.
C19_RejudgeResetsThenEnqueues ==
    req.kind = "rejudge" =>
        /\ nPub = 0 /\ log = <<>>
        /\ \A s \in Sessions : Out(s) = <<>>
        /\ ~hasPerm(req.user, "PERM_REJUDGE") =>
               /\ req.pc = "done" /\ req.result = "PermissionError"
               /\ req.nReset = 0 /\ req.nJudge = 0
               /\ queue = req.queue0 /\ rstatus = req.rstatus0
        /\ (hasPerm(req.user, "PERM_REJUDGE") /\ RecordExists(req.rid)) =>
               /\ req.pc \in {"get", "reset", "judge", "done"}
               /\ req.pc \in {"get", "reset"} =>
                      /\ req.nReset = 0 /\ req.nJudge = 0
                      /\ queue = req.queue0 /\ rstatus = req.rstatus0
               /\ req.pc = "judge" =>
                      /\ req.nReset = 1 /\ req.nJudge = 0
                      /\ rstatus[req.rid] = "waiting"
                      /\ queue = req.queue0
               /\ req.pc = "done" =>
                      /\ req.result = "ok"
                      /\ req.nReset = 1 /\ req.nJudge = 1
                      /\ rstatus[req.rid] = "waiting"
                      /\ queue = Append(req.queue0, req.rid)

C19_Witness ==
    /\ req.kind = "rejudge"
    /\ hasPerm(req.user, "PERM_REJUDGE")
    /\ RecordExists(req.rid)
    /\ req.pc = "done"
    /\ req.nJudge = 1
    /\ queue = Append(req.queue0, req.rid)

\* C20: a list session attaches no ordering to its output: every suspended
\* invocation of onRecordChange can resume next, whatever other invocations
\* of the session are still suspended, so the row of a later event can be
\* written before the row of an earlier event of the same record.
C20_InvocationsIndependent ==
    \A t \in tasks :
        /\ t.pc = "fetch" => ENABLED MainFetched(t)
        /\ t.pc = "render" => ENABLED MainRendered(t)

\* Two events of one record were published as e1, e2 and the session has
\* written the row of e2 before the row of e1.
C20_Witness ==
    \E s \in Sessions : \E i, j \in OutIdx(s) :
        /\ i < j
        /\ Out(s)[i].ev.src = "bus" /\ Out(s)[j].ev.src = "bus"
        /\ Out(s)[i].rid = Out(s)[j].rid
        /\ Out(s)[i].ev.n > Out(s)[j].ev.n
        /\ \E k \in 1..Len(log) : log[k].ev = Out(s)[i].ev /\ s \in log[k].to
        /\ \E k \in 1..Len(log) : log[k].ev = Out(s)[j].ev /\ s \in log[k].to

====
